---- MODULE Spec2Model ----
(***************************************************************************)
(* Typed-header codec of headers-ext: the whole-second duration codec      *)
(* (util/seconds.rs) and the If-Modified-Since header                      *)
(* (common/if_modified_since.rs).                                          *)
(*                                                                         *)
(* A raw header value is a sequence of one-character strings.  A u64 is a  *)
(* little-endian sequence of four 16-bit limbs, so that the 64-bit width   *)
(* (overflow of checked_mul / checked_add) is kept exactly.  A Duration is *)
(* a record [secs, nanos]; Seconds is a newtype over Duration and is       *)
(* modelled by the Duration it wraps.  Option<T> is <<>> (None) or <<x>>.  *)
(***************************************************************************)
EXTENDS Integers, Sequences, FiniteSets, TLC

VARIABLES
    input,    \* the raw value handed to Seconds::from_val
    parsed,   \* None before the call, Some(what from_val returned) after it
    held,     \* the Seconds values the application holds, slots "a" and "b"
    hv,       \* HeaderValue::from(&held.a), once encoded (Option)
    shown,    \* Display text of held.a, once formatted (Option)
    back,     \* Seconds::from_val(hv), once parsed back (Option<Option<Seconds>>)
    cmp,      \* result of the last comparison of held.a with held.b (Option)
    values,   \* the raw values of the cursor, in wire order
    pos,      \* how many of them the cursor has yielded
    decoded,  \* outcome of the last decode from the cursor (Option)
    if_mod,   \* the IfModifiedSince value held (Option)
    since,    \* the SystemTime it was converted from (Option)
    answer    \* the last is_modified call: argument and result (Option)

vars == <<input, parsed, held, hv, shown, back, cmp, values, pos, decoded,
          if_mod, since, answer>>

---------------------------------------------------------------------------
(* Bounds of the model *)

MaxLen == 3      \* raw values over Alphabet are enumerated up to this length
MaxSmall == 12   \* second counts 0..MaxSmall are enumerated (plus the edges)
MaxValues == 3   \* a cursor holds at most this many raw values
MaxSecs == 4     \* instants lie in the first MaxSecs+1 seconds after the epoch

---------------------------------------------------------------------------
(* Option<T> *)

None == <<>>

Some(x) == <<x>>

IsSome(o) == o # None

Unwrap(o) == o[1]

---------------------------------------------------------------------------
(* u64: four 16-bit limbs, least significant first *)

Base == 2 ^ 16

Zero == <<0, 0, 0, 0>>

NLimbs == Len(Zero)

U64Max == <<Base - 1, Base - 1, Base - 1, Base - 1>>

\* the u64 with value n, for a natural n < 2^31
FromNat(n) == <<n % Base, n \div Base, 0, 0>>

\* x * m + c over the limbs from i upwards; carry is what does not fit in 64 bits
RECURSIVE MulAdd(_, _, _, _)
MulAdd(x, i, m, c) ==
    IF i > NLimbs
    THEN [limbs |-> <<>>, carry |-> c]
    ELSE LET cur == x[i] * m + c
             rest == MulAdd(x, i + 1, m, cur \div Base)
         IN  [limbs |-> <<cur % Base>> \o rest.limbs, carry |-> rest.carry]

checked_mul_wrapping(x, m) == Some(MulAdd(x, 1, m, 0).limbs)

\* u64::checked_mul: None on overflow
checked_mul(x, m) ==
    LET r == MulAdd(x, 1, m, 0)
    IN  IF r.carry # 0 THEN None ELSE Some(r.limbs)

\* u64::checked_add: None on overflow
checked_add(x, d) ==
    LET r == MulAdd(x, 1, 1, d)
    IN  IF r.carry # 0 THEN None ELSE Some(r.limbs)

\* x / 10 and x % 10, long division from the top limb down
RECURSIVE DivRem10(_, _, _)
DivRem10(x, i, rem) ==
    IF i = 0
    THEN [q |-> <<>>, r |-> rem]
    ELSE LET cur == rem * Base + x[i]
             rest == DivRem10(x, i - 1, cur % 10)
         IN  [q |-> rest.q \o <<cur \div 10>>, r |-> rest.r]

\* x < y on u64
RECURSIVE u64_lt_from(_, _, _)
u64_lt_from(x, y, i) ==
    IF i = 0 THEN FALSE
    ELSE IF x[i] # y[i] THEN x[i] < y[i]
    ELSE u64_lt_from(x, y, i - 1)

u64_lt(x, y) == u64_lt_from(x, y, NLimbs)

---------------------------------------------------------------------------
(* Raw header values and decimal text *)

Digits == <<"0", "1", "2", "3", "4", "5", "6", "7", "8", "9">>

DigitChars == {Digits[i] : i \in 1..Len(Digits)}

\* a byte >= 0x80 (obs-text): legal in a HeaderValue, not visible ASCII
OBS == "\\xE9"

\* the characters raw values are enumerated over
Alphabet == {"0", "1", "9", "+", "-", " ", "a", OBS}

\* char::to_digit(10)
to_digit(c) ==
    IF c \in DigitChars
    THEN Some((CHOOSE i \in 1..Len(Digits) : Digits[i] = c) - 1)
    ELSE None

\* HeaderValue::to_str: Err unless every byte is visible ASCII
to_str(val) ==
    IF \A i \in 1..Len(val) : val[i] # OBS THEN Some(val) ELSE None

\* the digit loop of u64::from_str: result = result * 10 + digit, both checked
RECURSIVE parse_digits(_, _, _)
parse_digits(digits, i, result) ==
    IF i > Len(digits) THEN Some(result)
    ELSE LET x == to_digit(digits[i])
         IN  IF ~IsSome(x) THEN None
             ELSE LET m == checked_mul(result, 10)
                  IN  IF ~IsSome(m) THEN None
                      ELSE LET s == checked_add(Unwrap(m), Unwrap(x))
                           IN  IF ~IsSome(s) THEN None
                               ELSE parse_digits(digits, i + 1, Unwrap(s))

parse_rejecting_leading_zero(src) ==
    IF src = <<>> THEN None
    ELSE LET digits == IF src[1] = "+" THEN Tail(src) ELSE src
         IN  IF digits = <<>> \/ (Len(digits) > 1 /\ digits[1] = "0") THEN None
             ELSE parse_digits(digits, 1, Zero)

\* str::parse::<u64>(): empty fails, one leading '+' is skipped (an unsigned
\* type takes no '-'), then at least one digit, every character a digit
parse(src) ==
    IF src = <<>> THEN None
    ELSE LET digits == IF src[1] = "+" THEN Tail(src) ELSE src
         IN  IF digits = <<>> THEN None
             ELSE parse_digits(digits, 1, Zero)

\* the decimal digits of x, most significant first; none for zero
RECURSIVE fmt_digits(_)
fmt_digits(x) ==
    IF x = Zero THEN <<>>
    ELSE LET qr == DivRem10(x, NLimbs, 0)
         IN  fmt_digits(qr.q) \o <<Digits[qr.r + 1]>>

fmt_u64_zero_empty(x) == fmt_digits(x)

\* decimal formatting of a u64 (u64's Display, and HeaderValue::from(u64))
fmt_u64(x) == IF x = Zero THEN <<"0">> ELSE fmt_digits(x)

---------------------------------------------------------------------------
(* Duration and Seconds *)

NanosPerSec == 10 ^ 9

\* Duration::from_secs
from_secs(secs) == [secs |-> secs, nanos |-> 0]

\* Duration::as_secs
as_secs(dur) == dur.secs

\* Seconds::from_val
from_val(val) ==
    LET s == to_str(val)
    IN  IF ~IsSome(s) THEN None
        ELSE LET secs == parse(Unwrap(s))
             IN  IF ~IsSome(secs) THEN None
                 ELSE Some(from_secs(Unwrap(secs)))

\* Seconds::as_u64
as_u64(self) == as_secs(self)

HeaderValue_from_debug(secs) == fmt_u64(as_secs(secs)) \o <<"s">>

\* impl From<&Seconds> for HeaderValue
HeaderValue_from(secs) == fmt_u64(as_secs(secs))

\* impl fmt::Display for Seconds
Display(self) == fmt_u64(as_secs(self))

\* impl From<Duration> for Seconds
Seconds_from(dur) == dur

\* #[derive(PartialEq, Eq)] on Seconds(Duration): Duration's equality
Seconds_eq(x, y) == x.secs = y.secs /\ x.nanos = y.nanos

\* #[derive(PartialOrd, Ord)] on Seconds(Duration): Duration's order
Seconds_lt(x, y) ==
    \/ u64_lt(x.secs, y.secs)
    \/ x.secs = y.secs /\ x.nanos < y.nanos

---------------------------------------------------------------------------
(* The value cursor and decoding from it *)

\* Iterator::next on the cursor: the first remaining value, if any
next(vals) ==
    IF vals = <<>>
    THEN [item |-> None, rest |-> vals]
    ELSE [item |-> Some(Head(vals)), rest |-> Tail(vals)]

try_from_values_unwrap(vals) ==
    LET n == next(vals)
    IN  IF ~IsSome(n.item)
        THEN [ret |-> None, rest |-> n.rest, panicked |-> TRUE]
        ELSE [ret |-> from_val(Unwrap(n.item)), rest |-> n.rest, panicked |-> FALSE]

try_from_values_single(vals) ==
    LET n == next(vals)
    IN  IF ~IsSome(n.item)
        THEN [ret |-> None, rest |-> n.rest, panicked |-> FALSE]
        ELSE IF n.rest # <<>>
        THEN [ret |-> None, rest |-> <<>>, panicked |-> FALSE]
        ELSE [ret |-> from_val(Unwrap(n.item)), rest |-> n.rest, panicked |-> FALSE]

\* impl TryFromValues for Seconds: Seconds::from_val(values.next()?)
try_from_values(vals) ==
    LET n == next(vals)
    IN  IF ~IsSome(n.item)
        THEN [ret |-> None, rest |-> n.rest, panicked |-> FALSE]
        ELSE [ret |-> from_val(Unwrap(n.item)), rest |-> n.rest, panicked |-> FALSE]

---------------------------------------------------------------------------
(* HttpDate (util/http_date.rs) and IfModifiedSince.  An instant is a      *)
(* record [secs, nanos]: secs whole seconds since the epoch plus nanos     *)
(* nanoseconds.  An HttpDate is [secs]; IfModifiedSince is a newtype over  *)
(* HttpDate and is modelled by the HttpDate it wraps.                      *)

ImfFixdate == <<"S", "a", "t", ",", " ", "2", "9", " ", "O", "c", "t", " ",
                "1", "9", "9", "4", " ", "1", "9", ":", "4", "3", ":", "3", "1",
                " ", "G", "M", "T">>

Rfc850Date == <<"S", "a", "t", "u", "r", "d", "a", "y", ",", " ", "2", "9", "-",
                "O", "c", "t", "-", "9", "4", " ", "1", "9", ":", "4", "3", ":",
                "3", "1", " ", "G", "M", "T">>

AsctimeDate == <<"S", "a", "t", " ", "O", "c", "t", " ", "2", "9", " ", "1", "9",
                 ":", "4", "3", ":", "3", "1", " ", "1", "9", "9", "4">>

NotADate == <<"n", "o", "t", " ", "a", " ", "d", "a", "t", "e">>

\* HttpDate's parse on the texts of the model: the three grammars of
\* 1994-10-29T19:43:31Z yield that instant, any other text of the model
\* matches no grammar
HttpDate_parse(text) ==
    IF text \in {ImfFixdate, Rfc850Date, AsctimeDate}
    THEN Some([secs |-> 783459811])
    ELSE None

\* impl From<SystemTime> for HttpDate: the sub-second part is dropped
HttpDate_from(time) == [secs |-> time.secs]

\* impl From<HttpDate> for SystemTime
SystemTime_from(date) == [secs |-> date.secs, nanos |-> 0]

\* SystemTime - Duration::from_secs(k)
SystemTime_sub(time, k) == [secs |-> time.secs - k, nanos |-> time.nanos]

\* x >= y on SystemTime
SystemTime_ge(x, y) ==
    \/ x.secs > y.secs
    \/ x.secs = y.secs /\ x.nanos >= y.nanos

\* impl From<SystemTime> for IfModifiedSince
IfModifiedSince_from(time) == HttpDate_from(time)

is_modified_reversed(self, last_modified) ==
    LET if_mod_time == SystemTime_from(self)
    IN  SystemTime_ge(if_mod_time, last_modified)

is_modified_strict(self, last_modified) ==
    LET if_mod_time == SystemTime_from(self)
    IN  SystemTime_ge(last_modified, if_mod_time) /\ last_modified # if_mod_time

\* IfModifiedSince::is_modified
is_modified(self, last_modified) ==
    LET if_mod_time == SystemTime_from(self)
    IN  SystemTime_ge(last_modified, if_mod_time)

\* the derived decode of IfModifiedSince: one value, parsed as an HttpDate
IfModifiedSince_decode(vals) ==
    LET n == next(vals)
    IN  IF ~IsSome(n.item)
        THEN [ret |-> None, rest |-> n.rest, panicked |-> FALSE]
        ELSE [ret |-> HttpDate_parse(Unwrap(n.item)), rest |-> n.rest,
              panicked |-> FALSE]

---------------------------------------------------------------------------
(* Inputs *)

\* all sequences over S of length at most n
SeqsUpTo(S, n) == UNION {[1..k -> S] : k \in 0..n}

\* the decimal text of 2^64 - 1 without its last digit
MaxPrefix == <<"1", "8", "4", "4", "6", "7", "4", "4", "0", "7",
               "3", "7", "0", "9", "5", "5", "1", "6", "1">>

\* 2^64 - 1 in decimal
MaxText == MaxPrefix \o <<"5">>

\* texts around the 64-bit edge, with and without a leading '0' or '+'
EdgeTexts ==
    LET tails == {t \in SeqsUpTo({"0", "4", "5", "6", "9"}, 2) : t # <<>>}
        plain == {MaxPrefix \o t : t \in tails} \cup {MaxPrefix}
    IN  plain \cup {<<"0">> \o e : e \in plain} \cup {<<"+">> \o e : e \in plain}
              \cup {<<"9">> \o e : e \in plain}

\* texts named by the documentation and tests of the duration type
NamedTexts ==
    { <<"3", "6", "0", "0">>, <<"0", "0", "7">>, <<"0", "1", "2", "3">>,
      <<"+", "5">>, <<"-", "1">>, <<"a", "b", "c">>, <<"1", ".", "5">>,
      <<"5", "s">>, <<"0", "0", "0", "0", "0", "0", "0", "0", "4", "2">> }

RawValues == SeqsUpTo(Alphabet, MaxLen) \cup EdgeTexts \cup NamedTexts

\* second counts: the small ones, and the edges of the limbs and of the type
U64Samples ==
    {FromNat(n) : n \in 0..MaxSmall}
        \cup { <<Base - 1, 0, 0, 0>>, <<0, 1, 0, 0>>, <<Base - 1, Base - 1, 0, 0>>,
               <<0, 0, 1, 0>>, <<0, 35304, 8964, 35527>>, U64Max }

\* sub-second parts a Duration or SystemTime may carry
NanoSamples == {0, 1, NanosPerSec - 1}

Durations == [secs : U64Samples, nanos : NanoSamples]

\* texts Seconds values are parsed from when they are built by from_val
SecondsTexts == { <<"0">>, <<"7">>, <<"0", "0", "7">>, <<"+", "7">>, <<"1", "2">>,
                  MaxText }

Slots == {"a", "b"}

---------------------------------------------------------------------------
(* Parsing one raw value: Seconds::from_val *)

Idle ==
    /\ held = [slot \in Slots |-> None]
    /\ hv = None
    /\ shown = None
    /\ back = None
    /\ cmp = None

NoCursor ==
    /\ values = <<>>
    /\ pos = 0
    /\ decoded = None

NoDate ==
    /\ if_mod = None
    /\ since = None
    /\ answer = None

InitParse ==
    /\ input \in RawValues
    /\ parsed = None
    /\ Idle
    /\ NoCursor
    /\ NoDate

\* the call Seconds::from_val(&input)
FromVal ==
    /\ parsed = None
    /\ parsed' = Some(from_val(input))
    /\ UNCHANGED <<input, held, hv, shown, back, cmp, values, pos, decoded,
                   if_mod, since, answer>>

NextParse == FromVal

SpecParse == InitParse /\ [][NextParse]_vars

---------------------------------------------------------------------------
(* Seconds values held by the application: build, encode, show, compare.   *)
(* A Seconds value is immutable: each slot is bound once.                   *)

InitSeconds ==
    /\ input = <<>>
    /\ parsed = None
    /\ Idle
    /\ NoCursor
    /\ NoDate

\* Seconds::from(dur) stored in a slot
FromDuration(slot, dur) ==
    /\ held[slot] = None
    /\ held' = [held EXCEPT ![slot] = Some(Seconds_from(dur))]
    /\ UNCHANGED <<input, parsed, hv, shown, back, cmp, values, pos, decoded,
                   if_mod, since, answer>>

\* Seconds::from_val(&val) stored in a slot when it yields a value
FromValInto(slot, val) ==
    /\ held[slot] = None
    /\ IsSome(from_val(val))
    /\ held' = [held EXCEPT ![slot] = from_val(val)]
    /\ UNCHANGED <<input, parsed, hv, shown, back, cmp, values, pos, decoded,
                   if_mod, since, answer>>

\* HeaderValue::from(&held.a)
Encode ==
    /\ IsSome(held.a)
    /\ hv = None
    /\ hv' = Some(HeaderValue_from(Unwrap(held.a)))
    /\ back' = None
    /\ UNCHANGED <<input, parsed, held, shown, cmp, values, pos, decoded,
                   if_mod, since, answer>>

\* format!("{}", held.a)
Show ==
    /\ IsSome(held.a)
    /\ shown = None
    /\ shown' = Some(Display(Unwrap(held.a)))
    /\ UNCHANGED <<input, parsed, held, hv, back, cmp, values, pos, decoded,
                   if_mod, since, answer>>

\* Seconds::from_val(&hv): the encoded value parsed back
ParseBack ==
    /\ IsSome(hv)
    /\ back = None
    /\ back' = Some(from_val(Unwrap(hv)))
    /\ UNCHANGED <<input, parsed, held, hv, shown, cmp, values, pos, decoded,
                   if_mod, since, answer>>

\* held.a == held.b and held.a < held.b
Compare ==
    /\ IsSome(held.a)
    /\ IsSome(held.b)
    /\ cmp = None
    /\ cmp' = Some([eq |-> Seconds_eq(Unwrap(held.a), Unwrap(held.b)),
                    lt |-> Seconds_lt(Unwrap(held.a), Unwrap(held.b))])
    /\ UNCHANGED <<input, parsed, held, hv, shown, back, values, pos, decoded,
                   if_mod, since, answer>>

NextSeconds ==
    \/ \E slot \in Slots, dur \in Durations : FromDuration(slot, dur)
    \/ \E slot \in Slots, val \in SecondsTexts : FromValInto(slot, val)
    \/ Encode
    \/ Show
    \/ ParseBack
    \/ Compare

SpecSeconds == InitSeconds /\ [][NextSeconds]_vars

---------------------------------------------------------------------------
(* Decoding from a value cursor *)

\* the raw values a container may hold for the header name
CursorValues == { <<>>, <<"5">>, <<"+", "5">>, <<"0", "0", "7">>, <<"a">>,
                  MaxPrefix \o <<"6">>, ImfFixdate, Rfc850Date, NotADate }

InitValues ==
    /\ input = <<>>
    /\ parsed = None
    /\ Idle
    /\ values \in SeqsUpTo(CursorValues, MaxValues)
    /\ pos = 0
    /\ decoded = None
    /\ NoDate

Panicked == IsSome(decoded) /\ Unwrap(decoded).panicked

\* Seconds::try_from_values(&mut values)
TryFromValues ==
    /\ ~Panicked
    /\ LET r == try_from_values(values)
       IN  /\ values' = r.rest
           /\ pos' = pos + (Len(values) - Len(r.rest))
           /\ decoded' = Some([ty |-> "Seconds", ret |-> r.ret, before |-> values,
                               at |-> pos, panicked |-> r.panicked])
    /\ UNCHANGED <<input, parsed, held, hv, shown, back, cmp, if_mod, since, answer>>

\* IfModifiedSince::decode(&mut values)
DecodeIfModifiedSince ==
    /\ ~Panicked
    /\ LET r == IfModifiedSince_decode(values)
       IN  /\ values' = r.rest
           /\ pos' = pos + (Len(values) - Len(r.rest))
           /\ decoded' = Some([ty |-> "IfModifiedSince", ret |-> r.ret,
                               before |-> values, at |-> pos,
                               panicked |-> r.panicked])
    /\ UNCHANGED <<input, parsed, held, hv, shown, back, cmp, if_mod, since, answer>>

NextValues == TryFromValues \/ DecodeIfModifiedSince

SpecValues == InitValues /\ [][NextValues]_vars

---------------------------------------------------------------------------
(* If-Modified-Since: conversion from an instant, and is_modified *)

Instants == [secs : 0..MaxSecs, nanos : NanoSamples]

InitIfMod ==
    /\ input = <<>>
    /\ parsed = None
    /\ Idle
    /\ NoCursor
    /\ NoDate

\* IfModifiedSince::from(time)
From(time) ==
    /\ if_mod = None
    /\ if_mod' = Some(IfModifiedSince_from(time))
    /\ since' = Some(time)
    /\ UNCHANGED <<input, parsed, held, hv, shown, back, cmp, values, pos, decoded,
                   answer>>

\* if_mod.is_modified(last_modified)
IsModified(last_modified) ==
    /\ IsSome(if_mod)
    /\ answer' = Some([last_modified |-> last_modified,
                       ret |-> is_modified(Unwrap(if_mod), last_modified)])
    /\ UNCHANGED <<input, parsed, held, hv, shown, back, cmp, values, pos, decoded,
                   if_mod, since>>

NextIfMod ==
    \/ \E time \in Instants : From(time)
    \/ \E last_modified \in Instants : IsModified(last_modified)

SpecIfMod == InitIfMod /\ [][NextIfMod]_vars

---------------------------------------------------------------------------
(* Vocabulary of the properties: decimal text read independently of parse  *)

AllDigits(t) == \A i \in 1..Len(t) : t[i] \in DigitChars

DigitOf(c) == (CHOOSE i \in 1..Len(Digits) : Digits[i] = c) - 1

\* the text without its leading zeros (possibly empty)
RECURSIVE StripZeros(_)
StripZeros(t) ==
    IF t # <<>> /\ t[1] = "0" THEN StripZeros(Tail(t)) ELSE t

\* the minimal decimal text of the same number
Canonical(t) == IF StripZeros(t) = <<>> THEN <<"0">> ELSE StripZeros(t)

\* the number a text of at most nine digits denotes
RECURSIVE NatOf(_)
NatOf(t) ==
    IF t = <<>> THEN 0
    ELSE 10 * NatOf(SubSeq(t, 1, Len(t) - 1)) + DigitOf(t[Len(t)])

\* s > t for digit texts of equal length
RECURSIVE DigitsGreater(_, _)
DigitsGreater(s, t) ==
    IF s = <<>> THEN FALSE
    ELSE IF s[1] # t[1] THEN DigitOf(s[1]) > DigitOf(t[1])
    ELSE DigitsGreater(Tail(s), Tail(t))

\* the number a digit text denotes is above 2^64 - 1
ExceedsU64(t) ==
    LET c == Canonical(t)
    IN  \/ Len(c) > Len(MaxText)
        \/ Len(c) = Len(MaxText) /\ DigitsGreater(c, MaxText)

\* text is the minimal decimal representation of the second count n
MinimalDecimal(text, n) ==
    /\ text # <<>>
    /\ AllDigits(text)
    /\ Len(text) > 1 => text[1] # "0"
    /\ Len(text) <= Len(MaxText)
    /\ ~ExceedsU64(text)
    /\ (n = Zero) <=> (text = <<"0">>)
    /\ (n = U64Max) <=> (text = MaxText)
    /\ Len(text) <= 9 => n = FromNat(NatOf(text))

---------------------------------------------------------------------------
(* Properties *)

C3_RoundTrip ==
    (IsSome(back) /\ Unwrap(held.a).nanos = 0) =>
        /\ IsSome(Unwrap(back))
        /\ Seconds_eq(Unwrap(Unwrap(back)), Unwrap(held.a))
        /\ as_u64(Unwrap(Unwrap(back))) = as_u64(Unwrap(held.a))

C3_Witness ==
    /\ IsSome(back)
    /\ Unwrap(held.a) = [secs |-> U64Max, nanos |-> 0]
    /\ Unwrap(hv) = MaxText
    /\ Unwrap(back) = held.a

\* C4 (as claimed): from_val yields a value only for a non-empty text made
\* of ASCII decimal digits alone; a sign, whitespace or any other character
\* makes it yield nothing.
C4_OnlyDigitsAccepted ==
    (IsSome(parsed) /\ IsSome(Unwrap(parsed))) =>
        (input # <<>> /\ AllDigits(input))

C6_OverflowFails ==
    (IsSome(parsed) /\ input # <<>> /\ AllDigits(input)) =>
        /\ ExceedsU64(input) => Unwrap(parsed) = None
        /\ input = MaxText => Unwrap(parsed) = Some(from_secs(U64Max))
        /\ ~ExceedsU64(input) => IsSome(Unwrap(parsed))

C6_Witness ==
    /\ input = MaxPrefix \o <<"6">>
    /\ parsed = Some(None)

\* C7 (as claimed): a == b exactly when the whole-second counts are equal and
\* a < b exactly when a's count is below b's, however a and b were built.
C7_NumericBySecondCount ==
    IsSome(cmp) =>
        LET x == Unwrap(held.a)
            y == Unwrap(held.b)
        IN  /\ Unwrap(cmp).eq <=> (as_u64(x) = as_u64(y))
            /\ Unwrap(cmp).lt <=> u64_lt(as_u64(x), as_u64(y))

\* C8: decoding from a cursor that yields no value returns nothing, for
\* Seconds and for IfModifiedSince, without a panic; the cursor stays put.
C8_EmptyCursorDecodesNothing ==
    (IsSome(decoded) /\ Unwrap(decoded).before = <<>>) =>
        /\ Unwrap(decoded).ret = None
        /\ ~Unwrap(decoded).panicked
        /\ values = <<>>
        /\ pos = Unwrap(decoded).at

C8_Witness ==
    /\ IsSome(decoded)
    /\ Unwrap(decoded).ty = "Seconds"
    /\ Unwrap(decoded).before = <<>>
    /\ Unwrap(decoded).at = 0
    /\ Unwrap(decoded).ret = None

\* C9: the text emitted for a Seconds value, by Display and by the conversion
\* to a raw value, is the minimal decimal text of its whole-second count:
\* digits only, no leading zero except "0" for the value 0.
C9_MinimalDecimalText ==
    /\ IsSome(hv) => MinimalDecimal(Unwrap(hv), as_u64(Unwrap(held.a)))
    /\ IsSome(shown) => MinimalDecimal(Unwrap(shown), as_u64(Unwrap(held.a)))
    /\ (IsSome(hv) /\ IsSome(shown)) => hv = shown

C9_Witness ==
    /\ hv = Some(<<"0">>)
    /\ shown = Some(<<"0">>)
    /\ Unwrap(held.a).nanos # 0

\* C10: on a cursor holding k >= 1 values, Seconds::try_from_values consumes
\* exactly the first one, whether it parses or not; the other k-1 stay, in
\* order; the result is that of the first value alone.
C10_ConsumesExactlyFirst ==
    (IsSome(decoded) /\ Unwrap(decoded).ty = "Seconds"
                     /\ Unwrap(decoded).before # <<>>) =>
        /\ values = Tail(Unwrap(decoded).before)
        /\ pos = Unwrap(decoded).at + 1
        /\ Unwrap(decoded).ret = from_val(Head(Unwrap(decoded).before))
        /\ ~Unwrap(decoded).panicked

C10_Witness ==
    /\ IsSome(decoded)
    /\ Unwrap(decoded).ty = "Seconds"
    /\ Unwrap(decoded).before = << <<"a">>, <<"5">>, <<"0", "0", "7">> >>
    /\ Unwrap(decoded).ret = None
    /\ values = << <<"5">>, <<"0", "0", "7">> >>

====
